---- MODULE Spec2Model ----
(***************************************************************************)
(* Bulk image downloader: the batch call of ImageDownloader (packages      *)
(* imagedownloader and imgdl), its worker pool, the per-URL download task  *)
(* and the files the tasks leave under store_path.                         *)
(***************************************************************************)
EXTENDS Integers, Sequences, FiniteSets, TLC

\* ------------------------------------------------------------------ bounds
MaxUrls == 2
MaxWorkers == 2
MaxRuns == 2
MaxRerunUrls == 1

URLS == <<"a", "b">>
THUMB_IDS == <<"s", "t">>
PACKAGES == {"imagedownloader", "imgdl"}

\* Python's None where the other values are tuples (paths, lists), and where
\* they are strings (user agents, proxies, image formats)
None == <<>>
Unset == "None"

VARIABLES
    pkg,        \* which package's ImageDownloader is running
    urls,       \* the input list given to __call__
    n_workers,  \* self.n_workers
    thumbs,     \* keys of self.thumbs_size, in dict order (imgdl: none)
    force,      \* the force argument of the current call
    calls,      \* the force arguments of the calls made so far, the current one last
    calls_left, \* how many more batch calls will be made on this store
    phase,      \* position of __call__: idle, running, returned
    pc,         \* per task: position in download_image
    img,        \* per task: orig_img (none, fetched, disk)
    resp,       \* per task: the HTTP response held in `response`
    k,          \* per task: index of the thumbnail spec being processed (0: original)
    err,        \* per task: the exception the future holds
    requested,  \* per task: the GET was issued
    slept,      \* per task: the jitter sleep was executed
    wrote,      \* per task: the paths the task opened for writing
    done,       \* per task: the paths the task wrote completely
    fs,         \* the files under store_path
    fs0,        \* the files as they were when the current call began
    paths,      \* the result being assembled by __call__
    collected,  \* futures already yielded by as_completed
    reordered,  \* as_completed yielded some future before one submitted earlier
    n_fail,     \* imgdl: the failure counter
    result,     \* the value returned by download()/__call__ (None until it returns)
    summary,    \* cli main: the summary computed from the returned value
    ctor,       \* constructor runs: arguments, the instances built, the shared headers
    conv        \* convert_image runs: the image given and the image encoded

vars == <<pkg, urls, n_workers, thumbs, force, calls, calls_left, phase, pc, img, resp, k,
          err, requested,
          slept, wrote, done, fs, fs0, collected, reordered, n_fail,
          summary, ctor, conv, paths, result>>

config == <<pkg, urls, n_workers, thumbs>>
taskVars == <<pc, img, resp, k, err, requested, slept, wrote, done>>
callVars == <<paths, collected, reordered, n_fail, result>>
extra == <<summary, ctor, conv>>

\* ------------------------------------------------------------------ paths
\* store_path / sha1(url) + '.jpg': one path per url
file_path(url) == <<"store", url>>

\* store_path / 'thumbs' / thumb_id / sha1(url) + '.jpg'
thumb_path(url, thumb_id) == <<"thumbs", thumb_id, url>>

Range(s) == {s[i] : i \in 1..Len(s)}

AllPaths ==
    {file_path(u) : u \in Range(URLS)}
        \cup {thumb_path(u, id) : u \in Range(URLS), id \in Range(THUMB_IDS)}

\* str(path)
Str(p) == <<"str", p>>

Tasks == 1..Len(urls)

\* the path a task's _persist_file call is writing: the original, or thumbnail k
Target(t) ==
    IF k[t] = 0 THEN file_path(urls[t]) ELSE thumb_path(urls[t], thumbs[k[t]])

exists(p) == fs[p] # "absent"

\* ------------------------------------------------------------------ HTTP
\* what requests.get hands back: a status and a body
Responses == [status : {"2xx", "non2xx"}, body : {"image", "junk"}]
NoResponse == [status |-> "none", body |-> "none"]

RECURSIVE SeqsUpTo(_, _)
SeqsUpTo(S, n) ==
    IF n = 0 THEN {<<>>}
    ELSE LET shorter == SeqsUpTo(S, n - 1)
         IN shorter \cup {Append(s, x) : s \in {q \in shorter : Len(q) = n - 1}, x \in S}

\* Input lists up to renaming of the urls: a url appears for the first time only
\* after every url before it in URLS has appeared
InFirstUseOrder(s) ==
    \A i \in 1..Len(s) : \A j \in 1..Len(URLS) :
        (s[i] = URLS[j] /\ j > 1) => \E h \in 1..(i - 1) : s[h] = URLS[j - 1]

UrlLists(n) == {s \in SeqsUpTo(Range(URLS), n) : InFirstUseOrder(s)}

\* ------------------------------------------------------------------ init
ThumbConfigs(p) ==
    IF p = "imgdl" THEN {<<>>}
    ELSE {SubSeq(THUMB_IDS, 1, n) : n \in 0..Len(THUMB_IDS)}

\* cli main before its summary is computed
NoSummary == [at |-> "none", raised |-> "none", downloaded |-> 0]

\* A constructed downloader on an empty store, before __call__
Fresh ==
    /\ force = FALSE
    /\ calls = <<>>
    /\ phase = "idle"
    /\ pc = [t \in Tasks |-> "none"]
    /\ img = [t \in Tasks |-> "none"]
    /\ resp = [t \in Tasks |-> NoResponse]
    /\ k = [t \in Tasks |-> 0]
    /\ err = [t \in Tasks |-> "none"]
    /\ requested = [t \in Tasks |-> FALSE]
    /\ slept = [t \in Tasks |-> FALSE]
    /\ wrote = [t \in Tasks |-> {}]
    /\ done = [t \in Tasks |-> {}]
    /\ fs = [p \in AllPaths |-> "absent"]
    /\ fs0 = fs
    /\ paths = <<>>
    /\ collected = {}
    /\ reordered = FALSE
    /\ n_fail = 0
    /\ result = None
    /\ summary = NoSummary

\* one batch call on an empty store
Init ==
    /\ pkg \in PACKAGES
    /\ urls \in UrlLists(MaxUrls)
    /\ n_workers \in 1..MaxWorkers
    /\ thumbs \in ThumbConfigs(pkg)
    /\ calls_left = 1
    /\ Fresh
    /\ ctor = "none"
    /\ conv = "none"

\* ------------------------------------------------------------------ __call__
\* __call__(urls, force): every url is submitted to the executor
StartBatch ==
    /\ phase \in {"idle", "returned"}
    /\ calls_left > 0
    /\ calls_left' = calls_left - 1
    /\ force' \in BOOLEAN
    /\ calls' = Append(calls, force')
    /\ phase' = "running"
    /\ pc' = [t \in Tasks |-> "queued"]
    /\ img' = [t \in Tasks |-> "none"]
    /\ resp' = [t \in Tasks |-> NoResponse]
    /\ k' = [t \in Tasks |-> 0]
    /\ err' = [t \in Tasks |-> "none"]
    /\ requested' = [t \in Tasks |-> FALSE]
    /\ slept' = [t \in Tasks |-> FALSE]
    /\ wrote' = [t \in Tasks |-> {}]
    /\ done' = [t \in Tasks |-> {}]
    /\ fs0' = fs
    /\ paths' = IF pkg = "imgdl" THEN [i \in Tasks |-> None] ELSE <<>>
    /\ collected' = {}
    /\ reordered' = FALSE
    /\ n_fail' = 0
    /\ result' = None
    /\ summary' = NoSummary
    /\ UNCHANGED <<config, ctor, conv, fs>>

Running == {t \in Tasks : pc[t] \notin {"none", "queued", "done", "error"}}
Queued == {t \in Tasks : pc[t] = "queued"}

\* a pool that starts a thread per submitted work item
CanStartUnbounded(t) ==
    /\ pc[t] = "queued"
    /\ \A q \in Queued : t <= q

\* ThreadPoolExecutor(max_workers=n_workers): a free worker takes the oldest
\* queued work item
CanStart(t) ==
    /\ pc[t] = "queued"
    /\ \A q \in Queued : t <= q
    /\ Cardinality(Running) < n_workers

Start(t) ==
    /\ phase = "running"
    /\ CanStart(t)
    /\ pc' = [pc EXCEPT ![t] = "check"]
    /\ UNCHANGED <<config, extra, force, calls, calls_left, phase, requested, img, resp, k, err, slept, wrote, done,
                   fs, fs0, callVars>>

\* the exception leaves download_image: the future holds it
Raise(t, cause) ==
    /\ pc' = [pc EXCEPT ![t] = "error"]
    /\ err' = [err EXCEPT ![t] = cause]

\* `if not path.exists() or force`
ShouldFetchIgnoringForce(t) == ~exists(file_path(urls[t]))
ShouldFetchAlways(t) == TRUE
ShouldFetch(t) == ~exists(file_path(urls[t])) \/ force

\* path = self.file_path(url); if not path.exists() or force: ...
Check(t) ==
    /\ pc[t] = "check"
    /\ pc' = [pc EXCEPT ![t] = IF ShouldFetch(t) THEN "fetch" ELSE "thumbs"]
    /\ k' = [k EXCEPT ![t] = IF ShouldFetch(t) THEN 0 ELSE 1]
    /\ UNCHANGED <<config, extra, force, calls, calls_left, phase, requested, img, resp, err, slept, wrote, done,
                   fs, fs0, callVars>>

\* a GET without a timeout: the host of every url but the first never answers,
\* and the worker waits for it
FetchWithoutTimeout(t) ==
    /\ pc[t] = "fetch"
    /\ urls[t] = URLS[1]
    /\ requested' = [requested EXCEPT ![t] = TRUE]
    /\ \/ /\ Raise(t, "FetchError")
          /\ UNCHANGED resp
       \/ /\ \E r \in Responses : resp' = [resp EXCEPT ![t] = r]
          /\ pc' = [pc EXCEPT ![t] = "decode"]
          /\ UNCHANGED err
    /\ UNCHANGED <<config, extra, force, calls, calls_left, phase, img, k, slept, wrote, done,
                   fs, fs0, callVars>>

\* response = requests.get(url, timeout, proxies, headers): the transport raises
\* (timeout, DNS, refused), or a response comes back; no status is looked at
Fetch(t) ==
    /\ pc[t] = "fetch"
    /\ requested' = [requested EXCEPT ![t] = TRUE]
    /\ \/ /\ Raise(t, "FetchError")
          /\ UNCHANGED resp
       \/ /\ \E r \in Responses : resp' = [resp EXCEPT ![t] = r]
          /\ pc' = [pc EXCEPT ![t] = "decode"]
          /\ UNCHANGED err
    /\ UNCHANGED <<config, extra, force, calls, calls_left, phase, img, k, slept, wrote, done,
                   fs, fs0, callVars>>

\* a bug that opens the target before the image is decoded
DecodeAfterOpen(t) ==
    /\ pc[t] = "decode"
    /\ fs' = [fs EXCEPT ![file_path(urls[t])] = "partial"]
    /\ wrote' = [wrote EXCEPT ![t] = @ \cup {file_path(urls[t])}]
    /\ IF resp[t].body = "image"
       THEN /\ img' = [img EXCEPT ![t] = "fetched"]
            /\ pc' = [pc EXCEPT ![t] = "write"]
            /\ UNCHANGED err
       ELSE /\ Raise(t, "DecodeError")
            /\ UNCHANGED img
    /\ resp' = [resp EXCEPT ![t] = NoResponse]
    /\ UNCHANGED <<config, extra, force, calls, calls_left, phase, requested, k, slept, done, fs0, callVars>>

\* orig_img = Image.open(BytesIO(response.content)); img, buf = convert_image(orig_img);
\* `response` is not used after this
Decode(t) ==
    /\ pc[t] = "decode"
    /\ IF resp[t].body = "image"
       THEN /\ img' = [img EXCEPT ![t] = "fetched"]
            /\ pc' = [pc EXCEPT ![t] = "open"]
            /\ UNCHANGED err
       ELSE /\ Raise(t, "DecodeError")
            /\ UNCHANGED img
    /\ resp' = [resp EXCEPT ![t] = NoResponse]
    /\ UNCHANGED <<config, extra, force, calls, calls_left, phase, requested, k, slept, wrote, done,
                   fs, fs0, callVars>>

\* _persist_file: `with path.open('wb') as f` creates or truncates the file, or raises
PersistOpen(t) ==
    /\ pc[t] = "open"
    /\ \/ /\ fs' = [fs EXCEPT ![Target(t)] = "partial"]
          /\ wrote' = [wrote EXCEPT ![t] = @ \cup {Target(t)}]
          /\ pc' = [pc EXCEPT ![t] = "write"]
          /\ UNCHANGED err
       \/ /\ Raise(t, "PersistError")
          /\ UNCHANGED <<fs, wrote>>
    /\ UNCHANGED <<config, extra, force, calls, calls_left, phase, requested, img, resp, k, slept, done, fs0, callVars>>

\* _persist_file: f.write(buf.getvalue()) and the close, or the write raises and
\* the opened file stays as it is
PersistWrite(t) ==
    /\ pc[t] = "write"
    /\ \/ /\ fs' = [fs EXCEPT ![Target(t)] = "complete"]
          /\ done' = [done EXCEPT ![t] = @ \cup {Target(t)}]
          /\ IF k[t] = 0
             THEN /\ pc' = [pc EXCEPT ![t] = "sleep"]
                  /\ UNCHANGED k
             ELSE /\ pc' = [pc EXCEPT ![t] = "thumbs"]
                  /\ k' = [k EXCEPT ![t] = @ + 1]
          /\ UNCHANGED err
       \/ /\ Raise(t, "PersistError")
          /\ UNCHANGED <<fs, done, k>>
    /\ UNCHANGED <<config, extra, force, calls, calls_left, phase, requested, img, resp, slept, wrote, fs0, callVars>>

\* sleep(random.uniform(self.min_wait, self.max_wait))
Sleep(t) ==
    /\ pc[t] = "sleep"
    /\ slept' = [slept EXCEPT ![t] = TRUE]
    /\ pc' = [pc EXCEPT ![t] = "thumbs"]
    /\ k' = [k EXCEPT ![t] = 1]
    /\ UNCHANGED <<config, extra, force, calls, calls_left, phase, requested, img, resp, err, wrote, done,
                   fs, fs0, callVars>>

\* `if not thumb_path.exists() or force`
ShouldMakeThumb(t) == ~exists(thumb_path(urls[t], thumbs[k[t]])) \/ force

\* for thumb_id, size in self.thumbs_size.items(): ...; return path
ThumbCheck(t) ==
    /\ pc[t] = "thumbs"
    /\ IF k[t] > Len(thumbs)
       THEN /\ pc' = [pc EXCEPT ![t] = "done"]
            /\ UNCHANGED k
       ELSE IF ShouldMakeThumb(t)
            THEN /\ pc' = [pc EXCEPT ![t] = "load"]
                 /\ UNCHANGED k
            ELSE /\ k' = [k EXCEPT ![t] = @ + 1]
                 /\ UNCHANGED pc
    /\ UNCHANGED <<config, extra, force, calls, calls_left, phase, requested, img, resp, err, slept, wrote, done,
                   fs, fs0, callVars>>

\* orig_img = orig_img or Image.open(str(path)); convert_image(orig_img, size):
\* a file that is not a complete image cannot be decoded
ThumbLoad(t) ==
    /\ pc[t] = "load"
    /\ IF img[t] # "none"
       THEN /\ pc' = [pc EXCEPT ![t] = "open"]
            /\ UNCHANGED <<img, err>>
       ELSE IF fs[file_path(urls[t])] = "complete"
            THEN /\ img' = [img EXCEPT ![t] = "disk"]
                 /\ pc' = [pc EXCEPT ![t] = "open"]
                 /\ UNCHANGED err
            ELSE /\ Raise(t, "LoadError")
                 /\ UNCHANGED img
    /\ UNCHANGED <<config, extra, force, calls, calls_left, phase, requested, resp, k, slept, wrote, done,
                   fs, fs0, callVars>>

Step(t) ==
    \/ Check(t)
    \/ Fetch(t)
    \/ Decode(t)
    \/ PersistOpen(t)
    \/ PersistWrite(t)
    \/ Sleep(t)
    \/ ThumbCheck(t)
    \/ ThumbLoad(t)

\* ------------------------------------------------------------------ results
Finished(t) == pc[t] \in {"done", "error"}

Keys(d) == {d[i][1] : i \in 1..Len(d)}

\* d[key] = v on a dict kept in insertion order: a present key keeps its place
DictSet(d, key, v) ==
    IF key \in Keys(d)
    THEN [i \in 1..Len(d) |-> IF d[i][1] = key THEN <<key, v>> ELSE d[i]]
    ELSE Append(d, <<key, v>>)

DictGet(d, key) == d[CHOOSE i \in 1..Len(d) : d[i][1] = key][2]

\* a collector that takes future.result() without looking at future.exception()
OutcomeUnchecked(t) == IF err[t] # "none" THEN "raise" ELSE file_path(urls[t])

\* what the collecting loop takes from a finished future: None when
\* future.exception() is not None, else future.result()
Outcome(t) == IF err[t] # "none" THEN None ELSE file_path(urls[t])

\* imagedownloader: paths[url] = None | future.result()
\* imgdl: paths[i] = str(future.result()), or n_fail += 1 and paths[i] stays None
Record(t, v) ==
    IF pkg = "imgdl"
    THEN /\ paths' = [paths EXCEPT ![t] = IF v = None THEN None ELSE Str(v)]
         /\ n_fail' = IF v = None THEN n_fail + 1 ELSE n_fail
    ELSE /\ paths' = DictSet(paths, urls[t], v)
         /\ UNCHANGED n_fail

\* one turn of `for future in as_completed(future_to_url)`
Collect(t) ==
    /\ phase = "running"
    /\ Finished(t)
    /\ t \notin collected
    /\ collected' = collected \cup {t}
    /\ reordered' = (reordered \/ \E q \in Tasks \ collected : q < t)
    /\ IF Outcome(t) = "raise"
       THEN /\ phase' = "raised"
            /\ UNCHANGED <<paths, n_fail>>
       ELSE /\ Record(t, Outcome(t))
            /\ UNCHANGED phase
    /\ UNCHANGED <<config, extra, force, calls, calls_left, taskVars, fs, fs0, result>>

\* imgdl: download() returns the list of __call__
\* imagedownloader: download() lists str(response) or None over results.items()
Returned(d) ==
    IF pkg = "imgdl" THEN d
    ELSE [i \in 1..Len(d) |-> IF d[i][2] = None THEN None ELSE Str(d[i][2])]

\* the executor's with-block ends once every future was yielded; return paths
Return ==
    /\ phase = "running"
    /\ collected = Tasks
    /\ phase' = "returned"
    /\ result' = Returned(paths)
    /\ UNCHANGED <<config, extra, force, calls, calls_left, taskVars, fs, fs0, paths, collected, reordered, n_fail>>

Next ==
    \/ StartBatch
    \/ \E t \in Tasks : Start(t)
    \/ \E t \in Tasks : phase = "running" /\ Step(t)
    \/ \E t \in Tasks : Collect(t)
    \/ Return

Spec == Init /\ [][Next]_vars

\* the same list given to __call__ again and again on one store
InitRerun ==
    /\ pkg \in PACKAGES
    /\ urls \in UrlLists(MaxRerunUrls)
    /\ n_workers \in 1..MaxWorkers
    /\ thumbs \in ThumbConfigs(pkg)
    /\ calls_left = MaxRuns
    /\ Fresh
    /\ ctor = "none"
    /\ conv = "none"

SpecRerun == InitRerun /\ [][Next]_vars

\* ------------------------------------------------------------------ cli main
\* how many entries of a returned list are not None
NonNone(s) == Cardinality({i \in 1..Len(s) : s[i] # None})

\* what download() hands back to main: the list it builds from results.items()
DOWNLOAD_RETURNS == "list"

\* main's summary of the returned value: results.items() exists on a mapping only;
\* then downloaded_imgs / len(urls) is formatted
main_summary(results, n) ==
    IF DOWNLOAD_RETURNS # "dict"
    THEN [at |-> "raised", raised |-> "AttributeError", downloaded |-> 0]
    ELSE IF n = 0
    THEN [at |-> "raised", raised |-> "ZeroDivisionError", downloaded |-> NonNone(results)]
    ELSE [at |-> "logged", raised |-> "none", downloaded |-> NonNone(results)]

\* cli main after download() returned
Summarize ==
    /\ pkg = "imagedownloader"
    /\ phase = "returned"
    /\ summary.at = "none"
    /\ summary' = main_summary(result, Len(urls))
    /\ UNCHANGED <<config, ctor, conv, force, calls, calls_left, phase, taskVars, fs, fs0, callVars>>

NextMain == Next \/ Summarize

\* cli main: one download() of a list on an empty store, then the summary
SpecMain == Init /\ [][NextMain]_vars

\* ------------------------------------------------------------------ __init__
MaxProxies == 2
PROXY_URLS == <<"p", "q">>
USER_AGENT == "ua"
\* str(None)
STR_NONE == "'None'"
\* the mappings a headers argument can be: config['HEADERS'], which every default
\* construction shares, or a mapping of the caller
HEADER_OBJECTS == {"config", "caller"}

\* the proxies argument: None, one proxy string, a list of proxy strings,
\* a {"http": .., "https": ..} mapping, or a value of no accepted type
ProxyArgs ==
    {[shape |-> "none", items |-> <<>>], [shape |-> "other", items |-> <<>>]}
        \cup {[shape |-> sh, items |-> <<x>>] : sh \in {"str", "dict"}, x \in Range(PROXY_URLS)}
        \cup {[shape |-> "list", items |-> l] : l \in SeqsUpTo(Range(PROXY_URLS), MaxProxies)}

\* the thumbs_size argument: None, a {name: (w, h)} mapping, a list of sizes,
\* or a non-empty value of no accepted type
ThumbsSizeArgs ==
    {[shape |-> "none", items |-> <<>>], [shape |-> "other", items |-> <<>>]}
        \cup {[shape |-> sh, items |-> SubSeq(THUMB_IDS, 1, n)] :
                sh \in {"dict", "list"}, n \in 0..Len(THUMB_IDS)}

CtorArgs(p) ==
    {a \in [proxies : ProxyArgs, thumbs : BOOLEAN, thumbs_size : ThumbsSizeArgs,
            headers : HEADER_OBJECTS, user_agent : {Unset, USER_AGENT}] :
        p = "imgdl" => (~a.thumbs /\ a.thumbs_size.shape = "none")}

format_as_dict(proxy) == [http |-> proxy, https |-> proxy]
NoProxy == [http |-> Unset, https |-> Unset]

\* self.proxies: None, one mapping, or a list of mappings
NoProxies == [kind |-> "none", items |-> <<>>]
ProxyList(l) == [kind |-> "list", items |-> [i \in 1..Len(l) |-> format_as_dict(l[i])]]

Resolved(v) == [raised |-> "none", value |-> v]
Raising(e) == [raised |-> e, value |-> NoProxies]

\* imgdl: the proxies validator
resolve_proxies(value) ==
    IF value.shape = "str" THEN Resolved(ProxyList(value.items))
    ELSE IF value.shape = "list" /\ Len(value.items) > 0 THEN Resolved(ProxyList(value.items))
    ELSE IF value.shape # "none" THEN Raising("ValueError")
    ELSE Resolved(NoProxies)

\* imagedownloader: the assert on proxies and the if/elif/else that sets self.proxies
init_proxies(proxies, thumbs_size) ==
    IF proxies.shape \notin {"none", "list", "dict"} THEN Raising("AssertionError")
    ELSE IF proxies.shape = "dict"
        THEN Resolved([kind |-> "dict", items |-> <<format_as_dict(proxies.items[1])>>])
    ELSE IF thumbs_size.shape = "list"
        THEN IF proxies.shape = "none" THEN Raising("TypeError")
             ELSE Resolved(ProxyList(proxies.items))
    ELSE Resolved(NoProxies)

\* a constructor that takes thumbs_size as given, whatever the thumbs flag says
init_thumbs_size_unflagged(make_thumbs, thumbs_size) ==
    IF thumbs_size.shape = "other" THEN [raised |-> "Exception", value |-> <<>>]
    ELSE [raised |-> "none", value |-> thumbs_size.items]

\* imagedownloader: self.thumbs_size, as the sequence of its keys
init_thumbs_size(make_thumbs, thumbs_size) ==
    LET given == IF Len(thumbs_size.items) = 0 /\ thumbs_size.shape # "other"
                 THEN [shape |-> "dict", items |-> <<>>] ELSE thumbs_size
    IN IF ~make_thumbs THEN [raised |-> "none", value |-> <<>>]
       ELSE IF given.shape \in {"dict", "list"} THEN [raised |-> "none", value |-> given.items]
       ELSE [raised |-> "Exception", value |-> <<>>]

\* the directories _makedirs (imgdl: __attrs_post_init__) creates
makedirs(sizes) == {<<"store">>} \cup {<<"thumbs", sizes[i]>> : i \in 1..Len(sizes)}

NoArgs ==
    [proxies |-> [shape |-> "none", items |-> <<>>], thumbs |-> FALSE,
     thumbs_size |-> [shape |-> "none", items |-> <<>>],
     headers |-> "config", user_agent |-> Unset]
NoSelf == [proxies |-> NoProxies, thumbs_size |-> <<>>, headers |-> "config", own |-> Unset]

\* before any construction: both header mappings as their owners wrote them
NoCtor ==
    [at |-> "new", args |-> NoArgs, self |-> NoSelf, raised |-> "none", dirs |-> {},
     heap |-> [o \in HEADER_OBJECTS |-> Unset], chosen |-> NoProxy]

\* ImageDownloader(**a) of package imagedownloader
ConstructImagedownloader(a) ==
    LET heap1 == IF a.user_agent # Unset
                 THEN [ctor.heap EXCEPT ![a.headers] = a.user_agent] ELSE ctor.heap
        px == init_proxies(a.proxies, a.thumbs_size)
        ts == init_thumbs_size(a.thumbs, a.thumbs_size)
        exc == IF px.raised # "none" THEN px.raised ELSE ts.raised
    IN ctor' = [at |-> IF exc = "none" THEN "built" ELSE "raised",
                args |-> a,
                self |-> IF exc = "none"
                         THEN [proxies |-> px.value, thumbs_size |-> ts.value,
                               headers |-> a.headers, own |-> Unset]
                         ELSE NoSelf,
                raised |-> exc,
                dirs |-> IF exc = "none" THEN makedirs(ts.value) ELSE {},
                heap |-> heap1,
                chosen |-> NoProxy]

\* ImageDownloader(**a) of package imgdl: converters, validators, __attrs_post_init__
ConstructImgdl(a) ==
    LET copy == ctor.heap[a.headers]
        user_agent == IF a.user_agent = Unset THEN STR_NONE ELSE a.user_agent
        px == resolve_proxies(a.proxies)
    IN ctor' = [at |-> IF px.raised = "none" THEN "built" ELSE "raised",
                args |-> a,
                self |-> IF px.raised = "none"
                         THEN [proxies |-> px.value, thumbs_size |-> <<>>,
                               headers |-> "own", own |-> user_agent]
                         ELSE NoSelf,
                raised |-> px.raised,
                dirs |-> IF px.raised = "none" THEN makedirs(<<>>) ELSE {},
                heap |-> ctor.heap,
                chosen |-> NoProxy]

Construct ==
    /\ \E a \in CtorArgs(pkg) :
        IF pkg = "imgdl" THEN ConstructImgdl(a) ELSE ConstructImagedownloader(a)
    /\ UNCHANGED <<config, summary, conv, force, calls, calls_left, phase, taskVars, fs, fs0, callVars>>

\* get_proxy(): random.choice over a list, self.proxies otherwise
GetProxy ==
    /\ ctor.at \in {"built", "chosen"}
    /\ LET p == ctor.self.proxies
       IN IF p.kind = "list"
          THEN IF Len(p.items) = 0
               THEN ctor' = [ctor EXCEPT !.at = "raised", !.raised = "IndexError"]
               ELSE \E i \in 1..Len(p.items) :
                        ctor' = [ctor EXCEPT !.at = "chosen", !.chosen = p.items[i]]
          ELSE ctor' = [ctor EXCEPT !.at = "chosen",
                                    !.chosen = IF p.kind = "dict" THEN p.items[1] ELSE NoProxy]
    /\ UNCHANGED <<config, summary, conv, force, calls, calls_left, phase, taskVars, fs, fs0, callVars>>

NextCtor == Construct \/ GetProxy

\* constructions on one interpreter, one after the other
InitCtor ==
    /\ pkg \in PACKAGES
    /\ urls = <<>>
    /\ n_workers = 1
    /\ thumbs = <<>>
    /\ calls_left = 0
    /\ Fresh
    /\ ctor = NoCtor
    /\ conv = "none"

SpecCtor == InitCtor /\ [][NextCtor]_vars

\* ------------------------------------------------------------------ __call__ with one url string
\* a direct call that hands back None for a failed download
DirectContained(t) == IF err[t] # "none" THEN None ELSE file_path(urls[t])

\* what `self.download_image(urls, force=force)` gives its caller once it ended:
\* the path it returned, or the exception it let out
Direct(t) == IF err[t] # "none" THEN "raise" ELSE file_path(urls[t])

\* __call__(url, force) with a str: isinstance(urls, str) holds and the caller
\* itself enters download_image; no executor, no futures, no paths
CallSingle ==
    /\ phase \in {"idle", "returned", "raised"}
    /\ Len(urls) = 1
    /\ calls_left > 0
    /\ calls_left' = calls_left - 1
    /\ force' \in BOOLEAN
    /\ calls' = Append(calls, force')
    /\ phase' = "single"
    /\ pc' = [t \in Tasks |-> "check"]
    /\ img' = [t \in Tasks |-> "none"]
    /\ resp' = [t \in Tasks |-> NoResponse]
    /\ k' = [t \in Tasks |-> 0]
    /\ err' = [t \in Tasks |-> "none"]
    /\ requested' = [t \in Tasks |-> FALSE]
    /\ slept' = [t \in Tasks |-> FALSE]
    /\ wrote' = [t \in Tasks |-> {}]
    /\ done' = [t \in Tasks |-> {}]
    /\ fs0' = fs
    /\ result' = None
    /\ UNCHANGED <<config, extra, fs, paths, collected, reordered, n_fail>>

\* imagedownloader: return self.download_image(urls, force=force)
\* imgdl: return str(self._download_image(urls, force=force))
ReturnSingle ==
    /\ phase = "single"
    /\ \E t \in Tasks :
        /\ Finished(t)
        /\ IF Direct(t) = "raise"
           THEN /\ phase' = "raised"
                /\ UNCHANGED result
           ELSE /\ phase' = "returned"
                /\ result' = IF pkg = "imgdl" THEN Str(Direct(t)) ELSE Direct(t)
    /\ UNCHANGED <<config, extra, force, calls, calls_left, taskVars, fs, fs0, paths,
                   collected, reordered, n_fail>>

NextSingle ==
    \/ CallSingle
    \/ \E t \in Tasks : phase = "single" /\ Step(t)
    \/ ReturnSingle

\* one url string given to __call__ again and again on one store
InitSingle ==
    /\ pkg \in PACKAGES
    /\ urls \in {s \in UrlLists(1) : Len(s) = 1}
    /\ n_workers \in 1..MaxWorkers
    /\ thumbs \in ThumbConfigs(pkg)
    /\ calls_left = MaxRuns
    /\ Fresh
    /\ ctor = "none"
    /\ conv = "none"

SpecSingle == InitSingle /\ [][NextSingle]_vars

\* ------------------------------------------------------------------ construction, then a call
\* the constructor arguments that bear on thumbnails: thumbs, thumbs_size, and
\* proxies (whose type the branch of lines 81-92 reads together with thumbs_size)
ThumbArgs ==
    {a \in CtorArgs("imagedownloader") :
        /\ a.headers = "config"
        /\ a.user_agent = Unset
        /\ a.proxies.items \in {<<>>, <<PROXY_URLS[1]>>}}

\* ImageDownloader(**a): the instance built carries self.thumbs_size into its tasks
ConstructDownloader ==
    /\ ctor.at = "new"
    /\ phase = "idle"
    /\ \E a \in ThumbArgs : ConstructImagedownloader(a)
    /\ thumbs' = ctor'.self.thumbs_size
    /\ UNCHANGED <<pkg, urls, n_workers, summary, conv, force, calls, calls_left, phase,
                   taskVars, fs, fs0, callVars>>

\* only an instance that was built can be called
NextEnabled == ConstructDownloader \/ (ctor.at = "built" /\ Next)

\* an empty store, no instance yet
InitEnabled ==
    /\ pkg = "imagedownloader"
    /\ urls \in UrlLists(MaxRerunUrls)
    /\ n_workers = 1
    /\ thumbs = <<>>
    /\ calls_left = 1
    /\ Fresh
    /\ ctor = NoCtor
    /\ conv = "none"

SpecEnabled == InitEnabled /\ [][NextEnabled]_vars

\* ------------------------------------------------------------------ convert_image
MaxSide == 3

\* the (format, mode) pairs Image.open hands over for the common web formats
OPENED ==
    {<<"PNG", m>> : m \in {"1", "L", "LA", "P", "RGB", "RGBA"}}
        \cup {<<"JPEG", m>> : m \in {"L", "RGB", "CMYK"}}
        \cup {<<"GIF", m>> : m \in {"L", "P"}}
        \cup {<<"WEBP", m>> : m \in {"RGB", "RGBA"}}

\* modes with an alpha band
ALPHA_MODES == {"LA", "RGBA"}

\* an image: format, mode, size, what its transparent pixels were laid over, and
\* which object it is: the one Image.open returned, a new one, or a copy
Images ==
    {[format |-> fm[1], mode |-> fm[2], w |-> w, h |-> h, over |-> "nothing", obj |-> "orig"] :
        fm \in OPENED, w \in 1..MaxSide, h \in 1..MaxSide}

\* the size argument: None, or a (width, height) box
NoSize == <<>>
Sizes == {NoSize} \cup ((1..MaxSide) \X (1..MaxSide))

Max(a, b) == IF a > b THEN a ELSE b

\* Image.new('RGBA', img.size, white); paste(img, img); convert('RGB')
OnWhite(im) == [im EXCEPT !.format = Unset, !.mode = "RGB", !.over = "white", !.obj = "new"]

\* img.convert(mode): a new image in that mode; to RGB the alpha band is dropped
convert(im, mode) == [im EXCEPT !.format = Unset, !.mode = mode, !.obj = "new"]

\* a resize without img.copy(): the image at hand is the one that is shrunk
no_copy(im) == im

\* img.copy(): another object with the same pixels
copy(im) == [im EXCEPT !.format = Unset, !.obj = "copy"]

\* img.thumbnail(size): shrink the object itself into the box, keeping the
\* aspect and never enlarging
thumbnail(im, size) ==
    LET x1 == IF im.w > size[1] THEN size[1] ELSE im.w
        y1 == IF im.w > size[1] THEN Max((im.h * size[1]) \div im.w, 1) ELSE im.h
        x2 == IF y1 > size[2] THEN Max((x1 * size[2]) \div y1, 1) ELSE x1
        y2 == IF y1 > size[2] THEN size[2] ELSE y1
    IN [im EXCEPT !.w = x2, !.h = y2]

\* convert_image(img, size): the converted image and the JPEG written to buf
convert_image(im, size) ==
    LET rgb == IF im.format = "PNG" /\ im.mode = "RGBA" THEN OnWhite(im)
               ELSE IF im.mode = "P" THEN OnWhite(convert(im, "RGBA"))
               ELSE IF im.mode # "RGB" THEN convert(im, "RGB")
               ELSE im
        out == IF size # NoSize THEN thumbnail(copy(rgb), size) ELSE rgb
    IN [img |-> out, buf |-> [out EXCEPT !.format = "JPEG"]]

\* one call of convert_image
ConvertImage ==
    /\ conv.at = "given"
    /\ conv' = [conv EXCEPT !.at = "encoded", !.out = convert_image(conv.img, conv.size)]
    /\ UNCHANGED <<config, summary, ctor, force, calls, calls_left, phase, taskVars, fs, fs0, callVars>>

NextConvert == ConvertImage

\* an opened image and a size handed to convert_image
InitConvert ==
    /\ pkg \in PACKAGES
    /\ urls = <<>>
    /\ n_workers = 1
    /\ thumbs = <<>>
    /\ calls_left = 0
    /\ Fresh
    /\ ctor = "none"
    /\ \E i \in Images, z \in Sizes :
        conv = [at |-> "given", img |-> i, size |-> z, out |-> [img |-> i, buf |-> i]]

SpecConvert == InitConvert /\ [][NextConvert]_vars

\* ------------------------------------------------------------------ scheduling
\* a step of a worker thread or of the collecting loop of a batch call
Progress ==
    \/ \E t \in Tasks : Start(t)
    \/ \E t \in Tasks : phase = "running" /\ Step(t)
    \/ \E t \in Tasks : Collect(t)
    \/ Return

\* Threads that can run do run: the pool hands queued work to idle workers,
\* every fetch returns or fails within its timeout, sleep and file calls
\* return, and the collecting loop wakes up when a future is done
Fairness == WF_vars(Progress)

\* one batch call on an empty store, with no thumbnails or one spec
InitLive ==
    /\ pkg \in PACKAGES
    /\ urls \in UrlLists(MaxUrls)
    /\ n_workers \in 1..MaxWorkers
    /\ thumbs \in {c \in ThumbConfigs(pkg) : Len(c) <= 1}
    /\ calls_left = 1
    /\ Fresh
    /\ ctor = "none"
    /\ conv = "none"

SpecLive == InitLive /\ [][Next]_vars /\ Fairness

\* ------------------------------------------------------------------ thumbnails of one task
\* the object given to convert_image as it is after the call: the returned
\* image when that is the same object, else what it was
argument_after(im, size) ==
    LET made == convert_image(im, size).img
    IN IF made.obj = im.obj THEN made ELSE im

\* what a task reads from the store when it skipped the fetch: a stored JPEG
StoredImages == {i \in Images : i.format = "JPEG" /\ i.mode = "RGB"}

\* img, buf = self.convert_image(orig_img), after the fetch
ConvertOriginal ==
    /\ conv.at = "opened"
    /\ conv.fetched
    /\ conv' = [conv EXCEPT !.at = "stored",
                            !.size = NoSize,
                            !.out = convert_image(conv.orig, NoSize),
                            !.orig = argument_after(conv.orig, NoSize)]
    /\ UNCHANGED <<config, summary, ctor, force, calls, calls_left, phase, taskVars, fs, fs0, callVars>>

\* one turn of the loop over self.thumbs_size.items() that makes a thumbnail:
\* thumb_image, thumb_buf = self.convert_image(orig_img, size)
MakeThumb ==
    /\ \/ conv.at \in {"stored", "thumb"}
       \/ conv.at = "opened" /\ ~conv.fetched
    /\ conv.n < Len(THUMB_IDS)
    /\ \E z \in Sizes \ {NoSize} :
        conv' = [conv EXCEPT !.at = "thumb",
                             !.n = @ + 1,
                             !.size = z,
                             !.out = convert_image(conv.orig, z),
                             !.orig = argument_after(conv.orig, z)]
    /\ UNCHANGED <<config, summary, ctor, force, calls, calls_left, phase, taskVars, fs, fs0, callVars>>

NextThumbs == ConvertOriginal \/ MakeThumb

\* orig_img of one task: the fetched image, or the stored one read from disk
InitThumbs ==
    /\ pkg = "imagedownloader"
    /\ urls = <<>>
    /\ n_workers = 1
    /\ thumbs = THUMB_IDS
    /\ calls_left = 0
    /\ Fresh
    /\ ctor = "none"
    /\ \E f \in BOOLEAN : \E i \in (IF f THEN Images ELSE StoredImages) :
        conv = [at |-> "opened", fetched |-> f, img |-> i, orig |-> i, n |-> 0,
                size |-> NoSize, out |-> [img |-> i, buf |-> i]]

SpecThumbs == InitThumbs /\ [][NextThumbs]_vars

\* ================================================================== claims
Failed(t) == pc[t] = "error"
Succeeded(t) == pc[t] = "done"
TasksOf(u) == {t \in Tasks : urls[t] = u}

\* C1. Partial-failure isolation: the batch call never raises; when it returns
\* every url's task has run to an outcome, a url whose tasks failed maps to None,
\* and a url whose tasks succeeded maps to its stored path, whose file exists.
\* imgdl keeps one outcome per input position, imagedownloader one per url.
C1_PartialFailureIsolation ==
    /\ phase # "raised"
    /\ phase = "returned" =>
        /\ \A t \in Tasks : Finished(t)
        /\ pkg = "imgdl" =>
            \A t \in Tasks :
                /\ Failed(t) => paths[t] = None
                /\ Succeeded(t) =>
                    /\ paths[t] = Str(file_path(urls[t]))
                    /\ exists(file_path(urls[t]))
        /\ pkg = "imagedownloader" =>
            \A u \in Range(urls) :
                /\ u \in Keys(paths)
                /\ (\A t \in TasksOf(u) : Failed(t)) => DictGet(paths, u) = None
                /\ (\A t \in TasksOf(u) : Succeeded(t)) =>
                    /\ DictGet(paths, u) = file_path(u)
                    /\ exists(file_path(u))

\* a batch that returned with one url failed and another stored
C1_Witness ==
    /\ phase = "returned"
    /\ \E t1, t2 \in Tasks :
        /\ urls[t1] # urls[t2]
        /\ Failed(t1)
        /\ Succeeded(t2)

\* the outcome of the task at input position i, as download() reports it
Reported(i) == IF Failed(i) THEN None ELSE Str(file_path(urls[i]))

NoDuplicates(s) == \A i, j \in 1..Len(s) : s[i] = s[j] => i = j

\* C2. Deterministic output order: the list the batch returns is aligned with
\* the input list, whatever order the tasks completed in (stated for an input
\* list without repeated urls, where both packages report one entry per url).
C2_DeterministicOrder ==
    (phase = "returned" /\ NoDuplicates(urls)) =>
        /\ Len(result) = Len(urls)
        /\ \A i \in Tasks : result[i] = Reported(i)

\* the same, of the list imgdl's __call__ returns
C2_DeterministicOrderImgdl == pkg = "imgdl" => C2_DeterministicOrder

\* C5. Bounded concurrency: at most n_workers tasks are started and not finished.
C5_BoundedConcurrency == Cardinality(Running) <= n_workers

\* the pool is full and a submitted task waits
C5_Witness ==
    /\ Cardinality(Running) = n_workers
    /\ Queued # {}

\* a call after the first, all calls so far made without force
RerunWithoutForce == Len(calls) >= 2 /\ \A i \in 1..Len(calls) : ~calls[i]

\* C3 as stated. Idempotence: a second run of the batch on the same list without
\* force issues no GET and leaves every stored file as the first run left it.
C3_Idempotence ==
    RerunWithoutForce =>
        /\ \A t \in Tasks : ~requested[t]
        /\ fs = fs0

\* C3 as amended: a second run without force issues a GET only for a url whose
\* original file the first run did not leave, opens for writing no file that the
\* first run left, and so leaves every such file as it was.
C3_IdempotenceOfStored ==
    RerunWithoutForce =>
        /\ \A t \in Tasks : requested[t] => fs0[file_path(urls[t])] = "absent"
        /\ \A t \in Tasks : \A p \in wrote[t] : fs0[p] = "absent"
        /\ \A p \in AllPaths : fs0[p] # "absent" => fs[p] = fs0[p]

\* a second run without force that returned with a url skipped and reported stored
C3_Witness ==
    /\ RerunWithoutForce
    /\ phase = "returned"
    /\ \E t \in Tasks :
        /\ Succeeded(t)
        /\ ~requested[t]
        /\ fs0[file_path(urls[t])] = "complete"

\* the original and every configured thumbnail of a task's url
PathsOf(t) ==
    {file_path(urls[t])} \cup {thumb_path(urls[t], thumbs[i]) : i \in 1..Len(thumbs)}

C6_ThumbnailFailureIndependence ==
    \A t \in Tasks : (Failed(t) /\ k[t] >= 1) => k[t] = Len(thumbs)

\* C7. An original-image failure is fatal and leaves no file: a task that ended
\* in a fetch or decode error of the original attempted no thumbnail and opened
\* no file for writing.
C7_OriginalFailureLeavesNoFile ==
    \A t \in Tasks :
        err[t] \in {"FetchError", "DecodeError"} =>
            /\ Failed(t)
            /\ k[t] = 0
            /\ wrote[t] = {}
            /\ done[t] = {}

\* a task with thumbnails configured that ended in a decode error after its GET
C7_Witness ==
    /\ thumbs # <<>>
    /\ \E t \in Tasks :
        /\ Failed(t)
        /\ err[t] = "DecodeError"
        /\ requested[t]
        /\ fs[file_path(urls[t])] = "absent"

\* C8. Stored-image invariant: a file that exists at imagePath(url) is a
\* complete image, in every state of a batch.
C8_StoredImageComplete ==
    \A u \in Range(URLS) : exists(file_path(u)) => fs[file_path(u)] = "complete"

\* the GET of task t came back with a response (it did not raise)
GotResponse(t) == requested[t] /\ pc[t] # "fetch" /\ err[t] # "FetchError"

\* C9. Rate policy: a task that has ended slept exactly when its GET brought a
\* response back: after each actual fetch, never after a skip.
C9_RatePolicy ==
    \A t \in Tasks : Finished(t) => (slept[t] <=> GotResponse(t))

\* C10. Non-2xx responses are failures: a task holding a non-2xx response ends
\* in error at its next step, whatever the body, and so persists nothing.
C10_Non2xxFails ==
    [][\A t \in Tasks :
          (pc[t] = "decode" /\ resp[t].status = "non2xx" /\ pc'[t] # pc[t])
              => pc'[t] = "error"]_vars


\* C11 (proxy selection): the proxy get_proxy hands to a fetch is no proxy when
\* proxies was None, the given proxy when one proxy was given, and one element
\* of the list when a non-empty list was given, with http and https both set to
\* it; whatever thumbs and thumbs_size were given.
C11_ProxySelection ==
    ctor.at = "chosen" =>
        LET given == ctor.args.proxies
        IN /\ given.shape = "none" => ctor.chosen = NoProxy
           /\ given.shape \in {"str", "dict"} => ctor.chosen = format_as_dict(given.items[1])
           /\ (given.shape = "list" /\ Len(given.items) > 0) =>
                \E i \in 1..Len(given.items) : ctor.chosen = format_as_dict(given.items[i])

\* the same, for package imgdl alone
C11_ProxySelectionImgdl == pkg = "imgdl" => C11_ProxySelection


\* the failures a batch reports: imgdl logs n_fail; cli main reports the entries
\* that are not None out of len(urls)
ReportedFailures ==
    IF pkg = "imgdl" THEN n_fail ELSE Len(urls) - NonNone(result)

\* C12 (tally consistency): a batch over N urls, duplicates allowed, returns one
\* outcome per input position, and the failures it reports are as many as the
\* tasks that ended in an error, so successes and failures add up to N.
C12_TallyConsistency ==
    phase = "returned" =>
        /\ Len(result) = Len(urls)
        /\ ReportedFailures = Cardinality({t \in Tasks : Failed(t)})

\* the same, for package imgdl alone
C12_TallyConsistencyImgdl == pkg = "imgdl" => C12_TallyConsistency


\* C13 (empty input is zero work): a batch on an empty list makes no fetch and
\* writes no file, returns an empty result, and completes without raising, the
\* summary cli main computes after it included.
C13_EmptyInput ==
    Len(urls) = 0 =>
        /\ fs = fs0
        /\ phase # "raised"
        /\ phase = "returned" => result = <<>>
        /\ summary.raised = "none"

\* the same for the batch call alone, leaving cli main out
C13_EmptyBatch ==
    Len(urls) = 0 =>
        /\ fs = fs0
        /\ phase # "raised"
        /\ phase = "returned" => result = <<>>


\* the shapes the configuration contract accepts, and the ones it calls invalid
AcceptedShapes(a) ==
    /\ \/ a.proxies.shape \in {"none", "str"}
       \/ a.proxies.shape = "list" /\ Len(a.proxies.items) > 0
    /\ a.thumbs_size.shape \in {"none", "dict"}
InvalidShapes(a) == a.proxies.shape = "other" \/ a.thumbs_size.shape = "other"

\* C14 (eager configuration errors): a proxies or thumbs_size argument of an
\* invalid shape makes the construction raise before a directory is created;
\* None, one proxy string or a list of proxy strings, with a name-to-box
\* mapping, is constructed without an error.
C14_EagerConfigErrors ==
    (ctor.at # "new" /\ ctor.raised # "IndexError") =>
        /\ InvalidShapes(ctor.args) => (ctor.raised # "none" /\ ctor.dirs = {})
        /\ AcceptedShapes(ctor.args) => ctor.raised = "none"

\* the same, for package imgdl alone
C14_EagerConfigErrorsImgdl == pkg = "imgdl" => C14_EagerConfigErrors

\* a source the canonical encoding lays over white: a PNG with an alpha band,
\* or a palette image
NeedsWhite(im) ==
    (im.format = "PNG" /\ im.mode \in ALPHA_MODES) \/ im.mode = "P"

\* C15 (canonical output): for every format and mode convert_image takes, the
\* encoded image is 3-channel RGB without alpha; it was composited onto white
\* exactly when the source is a PNG with alpha or is palette-indexed, and
\* converted directly to RGB for every other mode.
C15_CanonicalOutput ==
    conv.at = "encoded" =>
        /\ conv.out.buf.mode = "RGB"
        /\ conv.out.buf.format = "JPEG"
        /\ conv.out.buf.over = "white" <=> NeedsWhite(conv.img)

\* the part about the stored mode and format alone
C15_AlwaysRGB ==
    conv.at = "encoded" => (conv.out.buf.mode = "RGB" /\ conv.out.buf.format = "JPEG")

\* an error that comes from the network, the body or the disk, not from the tasks
EnvironmentError(t) == err[t] \in {"FetchError", "DecodeError", "PersistError"}

Duplicated(u) == Cardinality(TasksOf(u)) >= 2

\* C16 (duplicate-url race is benign): with a url at several positions and two
\* or more workers, in every interleaving in which the network, the bodies and
\* the disk do not fail, every task of that url succeeds, its outcome is the
\* stored path, and its original and thumbnails are complete afterwards.
C16_DuplicateRaceBenign ==
    (phase = "returned" /\ n_workers >= 2 /\ \A t \in Tasks : ~EnvironmentError(t)) =>
        \A u \in Range(urls) : Duplicated(u) =>
            /\ \A t \in TasksOf(u) : Succeeded(t)
            /\ IF pkg = "imgdl" THEN \A t \in TasksOf(u) : paths[t] = Str(file_path(u))
               ELSE DictGet(paths, u) = file_path(u)
            /\ fs[file_path(u)] = "complete"
            /\ \A i \in 1..Len(thumbs) : fs[thumb_path(u, thumbs[i])] = "complete"

\* the same when no thumbnails are configured
C16_DuplicateRaceBenignNoThumbs == thumbs = <<>> => C16_DuplicateRaceBenign

\* C17 (a thumbnail failure does not change the url's outcome): a task ends in
\* an error, and its url is reported as None, only when the step on the original
\* (fetch, decode or write of the original) failed; once the original was stored
\* or skipped, the task returns the original's path even if a thumbnail failed.
C17_ThumbnailFailureKeepsOutcome ==
    \A t \in Tasks :
        /\ Failed(t) => k[t] = 0
        /\ (t \in collected /\ k[t] >= 1) => Reported(t) = Str(file_path(urls[t]))

\* the task found its original on disk and the call does not force: the skip branch
SkipsOriginal(t) ==
    /\ pc[t] \notin {"none", "queued", "check"}
    /\ ~force
    /\ fs0[file_path(urls[t])] # "absent"

ThumbsOf(t) == {thumb_path(urls[t], thumbs[i]) : i \in 1..Len(thumbs)}

\* C18 (skip and thumbnail back-fill): a task whose original exists, without
\* force, makes no fetch, does not rewrite the original and returns its path as
\* success; a thumbnail that exists is left untouched and a missing one is
\* created from the original read from disk. A task that fetched its original
\* in this run derives its thumbnails from the fetched image, not from disk.
C18_SkipAndBackfill ==
    \A t \in Tasks :
        /\ SkipsOriginal(t) =>
            /\ ~requested[t]
            /\ file_path(urls[t]) \notin wrote[t]
            /\ \A p \in ThumbsOf(t) : fs0[p] # "absent" => p \notin wrote[t]
            /\ (wrote[t] # {} /\ ~Failed(t)) => img[t] = "disk"
            /\ Finished(t) =>
                /\ Succeeded(t)
                /\ \A p \in ThumbsOf(t) : fs[p] = "complete"
        /\ (requested[t] /\ k[t] >= 1 /\ ~Failed(t)) => img[t] = "fetched"

\* the same without the requirement that the task ends in success
C18_SkipAndBackfillUnlessFailed ==
    \A t \in Tasks :
        /\ SkipsOriginal(t) =>
            /\ ~requested[t]
            /\ file_path(urls[t]) \notin wrote[t]
            /\ \A p \in ThumbsOf(t) : fs0[p] # "absent" => p \notin wrote[t]
            /\ (wrote[t] # {} /\ ~Failed(t)) => img[t] = "disk"
            /\ Succeeded(t) => \A p \in ThumbsOf(t) : exists(p)
        /\ (requested[t] /\ k[t] >= 1 /\ ~Failed(t)) => img[t] = "fetched"

\* every url of the input has one outcome recorded, a path or None
OneOutcomeEach ==
    IF pkg = "imgdl" THEN Len(paths) = Len(urls)
    ELSE /\ {paths[i][1] : i \in 1..Len(paths)} = Range(urls)
         /\ \A i, j \in 1..Len(paths) : paths[i][1] = paths[j][1] => i = j

\* C19 (batch termination): for every input list and every n_workers >= 1, with
\* every fetch returning or failing within its timeout, a batch call that began
\* eventually returns, and then every input url has exactly one recorded
\* outcome and no task is running or waiting.
C19_BatchTermination ==
    (phase = "running") ~>
        (/\ phase = "returned"
         /\ Running = {}
         /\ Queued = {}
         /\ \A t \in Tasks : Finished(t)
         /\ OneOutcomeEach)

\* a returned batch of as many urls as workers allow to overlap, one task of it
\* failed and one stored
C19_Witness ==
    /\ phase = "returned"
    /\ Len(urls) >= 2
    /\ Running = {}
    /\ \E t1, t2 \in Tasks : Failed(t1) /\ Succeeded(t2)
    /\ OneOutcomeEach

\* a step leaves the header mappings of the caller and of config as they were,
\* and leaves the built instance's proxies and thumbnail specs alone unless it
\* is a new construction
LeavesConfigurationAlone ==
    /\ ctor'.heap = ctor.heap
    /\ ctor'.args = ctor.args =>
        (ctor'.self.proxies = ctor.self.proxies /\ ctor'.self.thumbs_size = ctor.self.thumbs_size)

\* C20 (configuration isolation): constructing a downloader with a user_agent
\* leaves the headers mapping the caller supplied, or the shared default one,
\* unchanged, so the headers of another instance do not depend on it; and a
\* task's get_proxy changes neither headers, proxies nor thumbnail specs.
C20_ConfigurationIsolation == [][LeavesConfigurationAlone]_vars

\* the same, for package imgdl alone
C20_ConfigurationIsolationImgdl == [][pkg = "imgdl" => LeavesConfigurationAlone]_vars

\* C21 (thumbnail source preservation): within one task, making the thumbnail of
\* one spec leaves the full-size image the task holds as it was opened, so the
\* thumbnail of every spec is the one convert_image makes from the full-size
\* original, in whatever order the specs are taken.
C21_ThumbnailSourcePreserved ==
    /\ conv.orig = conv.img
    /\ conv.at = "thumb" => conv.out = convert_image(conv.img, conv.size)

\* the last of several thumbnails of an RGB original, smaller than the original
C21_Witness ==
    /\ conv.at = "thumb"
    /\ conv.n = Len(THUMB_IDS)
    /\ conv.n >= 2
    /\ conv.img.mode = "RGB"
    /\ conv.out.img.w < conv.img.w
    /\ conv.orig = conv.img


\* the thumbs/{name} directories of a sequence of spec names
ThumbDirs(names) == {<<"thumbs", names[i]>> : i \in 1..Len(names)}

\* a path under thumbs/
IsThumbPath(p) == p[1] = "thumbs"

\* C22: a downloader constructed with thumbs false has an empty set of thumbnail
\* specs whatever thumbs_size was given, so that the constructor creates no
\* thumbs/ subdirectory and no task writes (or even opens) a thumbnail file; a
\* downloader constructed with thumbs true has created exactly the directories
\* thumbs/{name} of the specs configured in thumbs_size, next to the store root;
\* a constructor that raised created no directory at all
C22_ThumbnailsOnlyWhenEnabled ==
    ctor.at # "new" =>
        LET a == ctor.args
        IN /\ ~a.thumbs =>
                /\ ctor.at = "built"
                    => (ctor.self.thumbs_size = <<>> /\ thumbs = <<>> /\ ctor.dirs = {<<"store">>})
                /\ \A d \in ctor.dirs : ~IsThumbPath(d)
                /\ \A p \in AllPaths : IsThumbPath(p) => fs[p] = "absent"
                /\ \A t \in Tasks : \A p \in wrote[t] : ~IsThumbPath(p)
           /\ (a.thumbs /\ ctor.at = "built")
                => /\ ctor.dirs \ {<<"store">>} = ThumbDirs(a.thumbs_size.items)
                   /\ <<"store">> \in ctor.dirs
                   /\ Range(thumbs) = Range(a.thumbs_size.items)
           /\ ctor.at = "raised" => ctor.dirs = {}

\* a downloader built with thumbs false and two specs in thumbs_size has stored
\* the original of a url and returned
C22_Witness ==
    /\ ctor.at = "built"
    /\ ~ctor.args.thumbs
    /\ Len(ctor.args.thumbs_size.items) = Len(THUMB_IDS)
    /\ phase = "returned"
    /\ \E t \in Tasks : pc[t] = "done" /\ file_path(urls[t]) \in done[t]


\* the value a single-url call returns for a url: the Path (imgdl: its str)
SinglePath(u) == IF pkg = "imgdl" THEN Str(file_path(u)) ELSE file_path(u)

\* C23 (single-url call): a call of __call__ with one url string runs its one task
\* in the caller, without the pool: the task is never queued, no future is
\* collected and no result container is built; when the task ends without an
\* exception (a skip included) the call returns the path of the original itself,
\* and when the fetch, the decoding or a write fails the exception reaches the
\* caller: the call does not return, and no None is handed back in its place.
C23_SingleUrlCall ==
    /\ phase \in {"single", "returned", "raised"} =>
        /\ \A t \in Tasks : pc[t] # "queued"
        /\ collected = {} /\ paths = <<>> /\ n_fail = 0
    /\ phase = "returned" =>
        \A t \in Tasks : err[t] = "none" /\ pc[t] = "done" /\ result = SinglePath(urls[t])
    /\ phase = "raised" =>
        \A t \in Tasks : err[t] # "none" /\ pc[t] = "error" /\ result = None

\* a call ended with the exception of a write that failed after the file of the
\* original was opened
C23_Witness ==
    /\ phase = "raised"
    /\ \A t \in Tasks : err[t] = "PersistError" /\ file_path(urls[t]) \in wrote[t]
    /\ result = None

====
